---- MODULE Spec2Model ----
(***************************************************************************)
(* Local playback controller of HubRemote: the Player page component       *)
(* (src/src/pages/Player.tsx), the navigation context that mounts it       *)
(* (src/src/contexts/NavigationContext.tsx, src/src/App.tsx) and the       *)
(* playback reports it sends to the media server.                          *)
(*                                                                         *)
(* One step of the model is one JavaScript task (an event handler, a timer *)
(* callback or the continuation of an await) together with the React       *)
(* re-render and the effects that the task's state updates cause.          *)
(***************************************************************************)
EXTENDS Integers, Sequences, FiniteSets, TLC

\* ---------------------------------------------------------------- constants
PROGRESS_REPORT_INTERVAL == 10000
STATE_POLL_INTERVAL == 500
VOLUME_STEP == 5
SEEK_STEP == 10
InitialVolume == 100
TICKS_PER_SECOND == 10000000

\* ------------------------------------------------------------------- bounds
MaxHistory == 4
MaxUuid == 2
MaxLog == 3
MaxInits == 1
MaxExits == 2
MaxPosition == 1
MaxVolumeSteps == 1
MaxEpoch == 2
MaxPlays == 1
MaxMounts == 1
UnitsPerTick == 2
MaxUnits == 60

\* playable items (episodes), the episodes clicked on a detail page, and the
\* items (series) whose detail page is opened
Items == {"A", "B"}
ClickedItems == {"A"}
DetailItems == {"S"}
\* a season: ItemDetail.handlePlay passes its id to navigateToPlayer as it
\* does for a movie or an episode (only item.Type === 'Series' is resolved to
\* an episode first)
SeasonItems == {"N"}
\* itemData.Type of the item getItem() returns
ItemType(item) ==
  IF item \in DetailItems THEN "Series"
  ELSE IF item \in SeasonItems THEN "Season" ELSE "Episode"
None == "none"
\* playSessionIdRef.current = null; the UUIDs are 1, 2, ...
NoSession == 0
Positions == 0..MaxPosition
Volumes == {v \in 0..100 : v >= InitialVolume - MaxVolumeSteps * VOLUME_STEP}

\* episode.UserData?.PlaybackPositionTicks || 0 of the items: A was watched
\* for 60 s, B not at all
PlaybackPositionTicks(item) == IF item = "A" THEN 60 * TICKS_PER_SECOND ELSE 0

\* a prop or param that is not given
Undefined == -1

\* The props of the Player: AppContent renders <PlayerPage /> without any
startPositionTicks == Undefined

\* A time in seconds (a JavaScript number) is kept in fixed point, as a count
\* of units of 1 / (TICKS_PER_SECOND * UnitsPerTick) s, so that fractions of a
\* tick exist; a time in ticks is an integer.
\* ticksToSeconds(t) = t / 10000000
ticksToSeconds(t) == t * UnitsPerTick
\* secondsToTicks(s) = Math.floor(s * 10000000)
secondsToTicks(sec) == sec \div UnitsPerTick

\* start_position: startPositionTicks ? ticksToSeconds(startPositionTicks) : 0
LoadStartPosition ==
  IF startPositionTicks # Undefined /\ startPositionTicks # 0
    THEN ticksToSeconds(startPositionTicks) ELSE 0

\* PositionTicks: startPositionTicks || 0 of the start report
StartReportTicks ==
  IF startPositionTicks # Undefined /\ startPositionTicks # 0
    THEN startPositionTicks ELSE 0

\* CommandResult values the engine commands answer with (services/player.ts)
\* the length in seconds of an item's media, as getDuration() and the
\* snapshots of getState() report it once the file is loaded
MediaDuration(item) == MaxPosition

EngineOk == [success |-> TRUE, error |-> None]
EngineResults ==
  { EngineOk,
    [success |-> FALSE, error |-> "unsupported codec"],
    [success |-> FALSE, error |-> None] }

VARIABLES
  history, currentIndex,      \* NavigationProvider state
  hasCreds,                   \* configStore: serverUrl and accessToken are set
  isPlaying, isPaused, position, volume, isLoading, error,   \* Player useState
  playSessionIdRef,           \* Player useRef
  progElapsed,                \* ms since the progress interval was created
  inits,                      \* running init() calls of the init effect
  exits,                      \* running handleExit() calls
  log,                        \* reports handed to fetch, in order
  nextUuid,                   \* crypto.randomUUID: next fresh value
  epoch,                      \* number of play-item requests shown so far
  reportFailed,               \* console.error('Failed to report ...') was called
  plays,                      \* running ItemDetail.handlePlay() calls
  replaced,                   \* observer: id of the session that was Playing when
                              \*   the latest play-item request arrived
  sinceReport,                \* observer: ms since the last start/progress report
  staleFor,                   \* observer: ms of poll ticks since getState() last answered
  controlFailed,              \* observer: a control operation logged '... failed'
  engineUp,                   \* observer: init() succeeded, destroy() not invoked since
  command,                    \* observer: the latest command dispatched
  engineCalls,                \* observer: engine commands invoked by the latest dispatch
  caught,                     \* observer: the error the latest dispatch caught and logged
  threw,                      \* observer: a dispatch handler threw or rejected
  calc,                       \* observer: the latest conversion or clamp computed
  duration,                   \* useState(0): the media's length in seconds
  isMuted,                    \* useState(false)
  engineMuted                 \* the engine's mute flag

navVars == <<history, currentIndex>>
uiVars == <<isPlaying, isPaused, position, volume, isLoading, error, playSessionIdRef,
            duration, isMuted>>
vars == <<history, currentIndex, hasCreds, isPlaying, isPaused, position, volume,
          isLoading, error, playSessionIdRef, progElapsed, inits, exits, log,
          nextUuid, epoch, reportFailed, plays, replaced, sinceReport, staleFor,
          controlFailed, engineUp, command, engineCalls, caught, threw, calc, duration,
          isMuted, engineMuted>>
dispatchVars == <<command, engineCalls, caught, threw>>
obsVars == <<staleFor, controlFailed, engineUp, dispatchVars, calc, engineMuted, engineMuted>>

\* ------------------------------------------------------------------ helpers
RemoveAt(s, i) == [j \in 1..(Len(s) - 1) |-> IF j < i THEN s[j] ELSE s[j + 1]]

Min(a, b) == IF a < b THEN a ELSE b
Max(a, b) == IF a > b THEN a ELSE b

\* history[currentIndex] of the source (0-based there)
InRange(h, i) == i >= 0 /\ i < Len(h)
PageAt(h, i) == IF InRange(h, i) THEN h[i + 1].page ELSE "undefined"
ItemAt(h, i) == IF InRange(h, i) THEN h[i + 1].itemId ELSE None

\* App.renderPage: the Player component is rendered iff state.page = 'player'
Mounted == PageAt(history, currentIndex) = "player"
effectiveItemId == IF Mounted THEN ItemAt(history, currentIndex) ELSE None

\* The local state of a freshly mounted Player (the useState/useRef defaults)
FreshUi ==
  [isPlaying |-> FALSE, isPaused |-> TRUE, position |-> 0, volume |-> InitialVolume,
   isLoading |-> TRUE, error |-> None, ref |-> NoSession, duration |-> 0,
   isMuted |-> FALSE]

CurUi ==
  [isPlaying |-> isPlaying, isPaused |-> isPaused, position |-> position,
   volume |-> volume, isLoading |-> isLoading, error |-> error,
   ref |-> playSessionIdRef, duration |-> duration, isMuted |-> isMuted]

\* unwrapResult / unwrapVoid: the message thrown for a CommandResult, None if none
UnwrapThrows(result) ==
  IF ~result.success \/ result.error # None
    THEN (IF result.error # None THEN result.error ELSE "Unknown error")
    ELSE None

\* setError((e as Error).message || 'Failed to initialize player')
CatchMessage(m) == IF m = "" THEN "Failed to initialize player" ELSE m

\* one call of init() started by the init effect
NewTask(item, ep) ==
  [pc |-> "init", cancelled |-> FALSE, alive |-> TRUE, item |-> item, epoch |-> ep,
   start_position |-> Undefined, cancelledAt |-> "none"]

\* the effect cleanup `cancelled = true` of every earlier run of the init effect
\* (cancelledAt keeps the await the call was at when its flag was first set)
CancelAll(ts) ==
  [j \in 1..Len(ts) |->
     [ts[j] EXCEPT !.cancelled = TRUE,
                   !.cancelledAt = IF ts[j].cancelled THEN @ ELSE ts[j].pc]]
\* the same at unmount; the component's state is gone for these calls
Orphan(ts) ==
  [j \in 1..Len(ts) |->
     [ts[j] EXCEPT !.cancelled = TRUE, !.alive = FALSE,
                   !.cancelledAt = IF ts[j].cancelled THEN @ ELSE ts[j].pc]]

Report(kind, sid, item, ep) ==
  [kind |-> kind, PlaySessionId |-> sid, ItemId |-> item, epoch |-> ep]

\* The bodies of the three reports. Of the playback state in a body the log
\* keeps the start report's PositionTicks (startPositionTicks || 0) and the
\* IsPaused of the start and progress reports; the stop report has no IsPaused.
StartReport(sid, item, ep) ==
  [kind |-> "start", PlaySessionId |-> sid, ItemId |-> item, epoch |-> ep,
   PositionTicks |-> StartReportTicks, IsPaused |-> FALSE]
ProgressReport ==
  [kind |-> "progress", PlaySessionId |-> playSessionIdRef,
   ItemId |-> effectiveItemId, epoch |-> epoch, IsPaused |-> isPaused]
StopReport == Report("stop", playSessionIdRef, effectiveItemId, epoch)

\* staleFor stops counting here
StaleCap == STATE_POLL_INTERVAL

\* sinceReport stops counting here
ObserverCap == PROGRESS_REPORT_INTERVAL + STATE_POLL_INTERVAL

\* ------------------------------------------------- render and effects
\* The dependency list of the init effect changed between two renders:
\* [effectiveItemId, mediaSourceId, startPositionTicks, reportPlaybackStart],
\* and reportPlaybackStart is rebuilt when effectiveItemId or volume changes.
InitDepsChanged(oldItem, newItem, oldVolume, newVolume) ==
  oldItem # newItem \/ oldVolume # newVolume

\* The dependency list of the progress-interval effect changed:
\* [isPlaying, reportPlaybackProgress], and reportPlaybackProgress is rebuilt
\* when effectiveItemId, position, isPaused or volume changes.
ProgressDepsChanged(oldItem, newItem, s) ==
  \/ s.isPlaying # isPlaying
  \/ oldItem # newItem
  \/ s.position # position
  \/ s.isPaused # isPaused
  \/ s.volume # volume

\* What the init effect does when it runs for `item` on local state s
RunInitEffect(item, s, ts, ep) ==
  IF item = None
    THEN [ui |-> [s EXCEPT !.error = "No item ID provided", !.isLoading = FALSE],
          tasks |-> ts]
    ELSE [ui |-> [s EXCEPT !.isLoading = TRUE, !.error = None],
          tasks |-> Append(ts, NewTask(item, ep))]

\* The state after a task: nh, ni the navigation state it leaves, s the local
\* state after its setState calls, ts the init calls, el the progress timer.
AfterRender(nh, ni, s, ts, el) ==
  LET was == Mounted
      now == PageAt(nh, ni) = "player"
      oldItem == effectiveItemId
      newItem == IF now THEN ItemAt(nh, ni) ELSE None
      ep == IF now /\ newItem # None /\ (~was \/ newItem # oldItem)
              THEN epoch + 1 ELSE epoch
  IN CASE ~now /\ ~was -> [ui |-> FreshUi, tasks |-> ts, el |-> 0, ep |-> ep,
                           remount |-> FALSE]
       [] ~now /\ was  -> [ui |-> FreshUi, tasks |-> Orphan(ts), el |-> 0, ep |-> ep,
                           remount |-> TRUE]
       [] now /\ ~was  ->
            LET r == RunInitEffect(newItem, FreshUi, ts, ep)
            IN [ui |-> r.ui, tasks |-> r.tasks, el |-> 0, ep |-> ep, remount |-> TRUE]
       [] now /\ was   ->
            LET r == IF InitDepsChanged(oldItem, newItem, volume, s.volume)
                       THEN RunInitEffect(newItem, s, CancelAll(ts), ep)
                       ELSE [ui |-> s, tasks |-> ts]
            IN [ui |-> r.ui, tasks |-> r.tasks,
                el |-> IF r.ui.isPlaying /\ ~ProgressDepsChanged(oldItem, newItem, s)
                         THEN el ELSE 0,
                ep |-> ep, remount |-> FALSE]

\* AppContent reads state.page of history[currentIndex]: out of range it
\* throws while rendering and the tree is unmounted for good
Crashed == ~InRange(history, currentIndex)

Commit(nh, ni, s, ts, el, sr) ==
  LET h == IF Crashed THEN history ELSE nh
      i == IF Crashed THEN currentIndex ELSE ni
      a == AfterRender(h, i, s, ts, el)
  IN /\ Len(a.tasks) <= MaxInits
     /\ a.ep <= MaxEpoch
     /\ (a.remount /\ PageAt(h, i) = "player") => epoch < MaxMounts
     /\ history' = h
     /\ currentIndex' = i
     /\ isPlaying' = a.ui.isPlaying
     /\ isPaused' = a.ui.isPaused
     /\ position' = a.ui.position
     /\ volume' = a.ui.volume
     /\ isLoading' = a.ui.isLoading
     /\ error' = a.ui.error
     /\ playSessionIdRef' = a.ui.ref
     /\ duration' = a.ui.duration
     /\ isMuted' = a.ui.isMuted
     /\ inits' = a.tasks
     /\ progElapsed' = a.el
     /\ epoch' = a.ep
     /\ sinceReport' = IF a.remount THEN 0 ELSE sr

\* nothing has been computed yet
NoCalc == [op |-> "none", arg |-> 0, out |-> 0, back |-> 0]

\* nothing has been dispatched yet
NoCommand == [handler |-> "none", custom |-> FALSE, name |-> "none"]

\* ---------------------------------------------------------------- initial
Init ==
  /\ history = << [page |-> "home", itemId |-> None, startPositionTicks |-> Undefined] >>
  /\ currentIndex = 0
  /\ hasCreds \in BOOLEAN
  /\ isPlaying = FreshUi.isPlaying
  /\ isPaused = FreshUi.isPaused
  /\ position = FreshUi.position
  /\ volume = FreshUi.volume
  /\ isLoading = FreshUi.isLoading
  /\ error = FreshUi.error
  /\ playSessionIdRef = FreshUi.ref
  /\ progElapsed = 0
  /\ inits = << >>
  /\ exits = << >>
  /\ log = << >>
  /\ nextUuid = 1
  /\ epoch = 0
  /\ reportFailed = FALSE
  /\ plays = << >>
  /\ replaced = NoSession
  /\ sinceReport = 0
  /\ staleFor = 0
  /\ controlFailed = FALSE
  /\ engineUp = FALSE
  /\ command = NoCommand
  /\ engineCalls = << >>
  /\ caught = None
  /\ threw = FALSE
  /\ calc = NoCalc
  /\ duration = FreshUi.duration
  /\ isMuted = FreshUi.isMuted
  /\ engineMuted = FALSE


\* ------------------------------------------------------------- navigation
\* The history entry navigate() builds. Only navigateToPlayer gives a start
\* position: params.startPositionTicks = String(startPositionTicks), always
\* the item's PlaybackPositionTicks
Entry(page, item) ==
  [page |-> page, itemId |-> item,
   startPositionTicks |-> IF page = "player" /\ item # None
                            THEN PlaybackPositionTicks(item) ELSE Undefined]

\* navigate(page, params) of the render in which currentIndex was idx: drop
\* the history after idx, push, and add one to the current index
NavigateFrom(idx, page, item) ==
  LET nh == Append(SubSeq(history, 1, Min(idx + 1, Len(history))), Entry(page, item))
  IN /\ Len(nh) <= MaxHistory
     /\ Commit(nh, currentIndex + 1, CurUi, inits, progElapsed, sinceReport)

Navigate(page, item) ==
  /\ NavigateFrom(currentIndex, page, item)
  /\ UNCHANGED <<hasCreds, obsVars, plays, replaced, reportFailed, exits, log, nextUuid>>

\* Home.handleItemClick -> navigateToItem
NavigateToItem(item) ==
  /\ PageAt(history, currentIndex) = "home"
  /\ Navigate("item", item)

\* ItemDetail.handlePlayEpisode, or handlePlay for an item that is not a
\* Series -> navigateToPlayer
NavigateToPlayer(item) ==
  /\ PageAt(history, currentIndex) = "item"
  /\ Navigate("player", item)

\* ItemDetail.handlePlay of a series: runs up to await getFirstEpisode(...)
HandlePlay ==
  /\ PageAt(history, currentIndex) = "item"
  /\ Len(plays) < MaxPlays
  /\ plays' = Append(plays, [idx |-> currentIndex])
  /\ UNCHANGED <<navVars, hasCreds, obsVars, replaced, reportFailed, uiVars, progElapsed, inits,
                 exits, log, nextUuid, epoch, sinceReport>>

\* The player page shows a session that is Playing and `item` is another item
SessionPlaying == Mounted /\ isPlaying /\ error = None /\ playSessionIdRef # NoSession

\* getFirstEpisode settles with `episode` (None: no episode); handlePlay then
\* calls the navigateToPlayer of the render it was started in
FirstEpisodeFetched(i, episode) ==
  /\ i \in DOMAIN plays
  /\ plays' = RemoveAt(plays, i)
  /\ IF episode = None
       THEN UNCHANGED <<navVars, replaced, uiVars, progElapsed, inits, epoch,
                        sinceReport>>
       ELSE /\ NavigateFrom(plays[i].idx, "player", episode)
            /\ replaced' = IF SessionPlaying /\ episode # effectiveItemId
                             THEN playSessionIdRef ELSE replaced
  /\ UNCHANGED <<hasCreds, obsVars, reportFailed, exits, log, nextUuid>>

\* A button of the navigation bar, which every page but the item page shows,
\* clicked on the player page: navigate(id) without params, so the new entry
\* has itemId null
NavBar(page) ==
  /\ Mounted
  /\ Navigate(page, None)

\* goBack(): the back button of ItemDetail and of the Player's error view
GoBack ==
  /\ \/ PageAt(history, currentIndex) = "item"
     \/ Mounted /\ error # None
  /\ currentIndex > 0
  /\ Commit(history, currentIndex - 1, CurUi, inits, progElapsed, sinceReport)
  /\ UNCHANGED <<hasCreds, obsVars, plays, replaced, reportFailed, exits, log, nextUuid>>

\* ------------------------------------------------------------ init effect
\* catch (e) { if (!cancelled) { setError(...); setIsLoading(false) } }
InitCatch(t, msg) ==
  IF t.cancelled THEN CurUi
  ELSE [CurUi EXCEPT !.error = CatchMessage(msg), !.isLoading = FALSE]

\* an init call ends by throwing msg into its catch block
InitFails(i, msg) ==
  /\ Commit(history, currentIndex, InitCatch(inits[i], msg), RemoveAt(inits, i),
            progElapsed, sinceReport)
  /\ UNCHANGED <<hasCreds, obsVars, plays, replaced, reportFailed, exits, log, nextUuid>>

InitAdvance(i, pc) ==
  /\ inits' = [inits EXCEPT ![i].pc = pc]
  /\ UNCHANGED <<navVars, hasCreds, obsVars, plays, replaced, reportFailed, uiVars, progElapsed, exits, log, nextUuid, epoch,
                 sinceReport>>

\* playerService.init() has created the engine instance: init() goes on to
\* await jellyfinApi.getItem(...)
InitEngineCreated(i) ==
  /\ inits' = [inits EXCEPT ![i].pc = "getItem"]
  /\ engineUp' = TRUE
  /\ UNCHANGED <<navVars, hasCreds, staleFor, controlFailed, dispatchVars, calc, engineMuted, plays,
                 replaced, reportFailed, uiVars, progElapsed, exits, log, nextUuid,
                 epoch, sinceReport>>

\* await playerService.init() settles
InitEngineReady(i, result) ==
  /\ i \in DOMAIN inits
  /\ inits[i].pc = "init"
  /\ IF UnwrapThrows(result) # None
       THEN InitFails(i, UnwrapThrows(result))
       ELSE InitEngineCreated(i)

\* playerService.playVideoWithOptions({url, start_position, auth_token}) is
\* invoked: the call in flight carries start_position
InitInvokeLoad(i) ==
  /\ inits' = [inits EXCEPT ![i].pc = "load", ![i].start_position = LoadStartPosition]
  /\ UNCHANGED <<navVars, hasCreds, obsVars, plays, replaced, reportFailed, uiVars, progElapsed,
                 exits, log, nextUuid, epoch, sinceReport>>

\* await jellyfinApi.getItem(userId, effectiveItemId) settles
InitItemFetched(i, ok) ==
  /\ i \in DOMAIN inits
  /\ inits[i].pc = "getItem"
  /\ IF ~ok THEN InitFails(i, "Request failed")
     ELSE IF inits[i].cancelled
       THEN /\ inits' = RemoveAt(inits, i)          \* if (cancelled) return
            /\ UNCHANGED <<navVars, hasCreds, obsVars, plays, replaced, reportFailed, uiVars, progElapsed, exits, log,
                           nextUuid, epoch, sinceReport>>
       ELSE InitInvokeLoad(i)

\* await playerService.playVideoWithOptions(...) settles
InitLoaded(i, result) ==
  /\ i \in DOMAIN inits
  /\ inits[i].pc = "load"
  /\ IF UnwrapThrows(result) # None
       THEN InitFails(i, UnwrapThrows(result))
       ELSE InitAdvance(i, "duration")

\* reportPlaybackStart sends iff effectiveItemId, serverUrl and accessToken are set
StartIsSent(t) == t.item # None /\ hasCreds

\* await playerService.getDuration() settles; on success the rest of init()
\* runs up to the fetch inside reportPlaybackStart
InitDurationRead(i, result) ==
  /\ i \in DOMAIN inits
  /\ inits[i].pc = "duration"
  /\ IF UnwrapThrows(result) # None
       THEN InitFails(i, UnwrapThrows(result))
       ELSE
         LET t == inits[i]
             sent == StartIsSent(t)
             s1 == IF t.alive
                     THEN [CurUi EXCEPT !.duration = MediaDuration(t.item),
                                        !.isPlaying = TRUE, !.isPaused = FALSE,
                                        !.isLoading = FALSE]
                     ELSE CurUi
             s2 == IF sent /\ t.alive THEN [s1 EXCEPT !.ref = nextUuid] ELSE s1
         IN /\ sent => (nextUuid <= MaxUuid /\ Len(log) < MaxLog)
            /\ log' = IF sent
                        THEN Append(log, StartReport(nextUuid, t.item, t.epoch))
                        ELSE log
            /\ nextUuid' = IF sent THEN nextUuid + 1 ELSE nextUuid
            /\ Commit(history, currentIndex, s2,
                      IF sent THEN [inits EXCEPT ![i].pc = "startFetch"]
                              ELSE RemoveAt(inits, i),
                      progElapsed,
                      IF sent /\ t.alive THEN 0 ELSE sinceReport)
            /\ UNCHANGED <<hasCreds, obsVars, plays, replaced, reportFailed, exits>>

\* A variant in which a rejected fetch is rethrown into the catch block of init()
AfterStartFetchRethrown(t, ok) == IF ok THEN CurUi ELSE InitCatch(t, "Failed to fetch")

\* What init() does when the fetch of reportPlaybackStart settles: a rejection
\* is caught and logged inside reportPlaybackStart, init() just returns
AfterStartFetch(t, ok) == CurUi

\* the fetch of reportPlaybackStart resolves (ok) or rejects
StartReportSettled(i, ok) ==
  /\ i \in DOMAIN inits
  /\ inits[i].pc = "startFetch"
  /\ Commit(history, currentIndex, AfterStartFetch(inits[i], ok), RemoveAt(inits, i),
            progElapsed, sinceReport)
  /\ reportFailed' = (reportFailed \/ ~ok)
  /\ UNCHANGED <<hasCreds, obsVars, plays, replaced, exits, log, nextUuid>>

\* ------------------------------------------------------------- the timers
\* reportPlaybackProgress / reportPlaybackStopped send iff effectiveItemId,
\* serverUrl, accessToken and playSessionIdRef.current are all set
ReportIsSent == effectiveItemId # None /\ hasCreds /\ playSessionIdRef # NoSession

PollFailed == [ok |-> FALSE]
PollResults ==
  {PollFailed} \cup
  { [ok |-> TRUE, position |-> p, is_paused |-> b, duration |-> MediaDuration("A")] :
      p \in Positions, b \in BOOLEAN }

\* The snapshots of getState() with every field the engine reports that a
\* claim reads: the position may pass the duration while the engine buffers,
\* the duration is 0 until the engine knows it, and the volume and pause flag
\* are the engine's own, whoever changed them
PollSnapshots ==
  {PollFailed} \cup
  { [ok |-> TRUE, position |-> p, is_paused |-> b, duration |-> d, volume |-> v] :
      p \in 0..(MaxPosition + 1), b \in BOOLEAN, d \in {0, MediaDuration("A")},
      v \in Volumes }

\* A variant of the poll callback that escalates a failed getState()
AfterPollEscalates(res) ==
  IF res.ok
    THEN [CurUi EXCEPT !.position = res.position, !.isPaused = res.is_paused]
    ELSE [CurUi EXCEPT !.error = "Failed to get state"]

\* A variant of the poll callback that stores the position only
AfterPollPositionOnly(res) ==
  IF res.ok THEN [CurUi EXCEPT !.position = res.position] ELSE CurUi

\* the poll callback: setPosition(state.position); setIsPaused(state.is_paused);
\* if (state.duration > 0) setDuration(state.duration); a failed getState() is
\* swallowed
AfterPoll(res) ==
  IF res.ok
    THEN [CurUi EXCEPT !.position = res.position, !.isPaused = res.is_paused,
                       !.duration = IF res.duration > 0 THEN res.duration ELSE @]
    ELSE CurUi

\* One run of the state poll's callback (Spec: the time between two runs is
\* not counted)
Poll(res) ==
  /\ Mounted
  /\ isPlaying
  /\ Commit(history, currentIndex, AfterPoll(res), inits, progElapsed, sinceReport)
  /\ UNCHANGED <<hasCreds, obsVars, plays, replaced, reportFailed, exits, log, nextUuid>>

\* The interval created by the progress effect calls reportPlaybackProgress.
\* Spec does not count the age of the interval: it may fire whenever it
\* exists, which covers every firing of the real timer, since the polls of
\* the ten seconds before may all have read an unchanged state.
\* The outcome ok of its fetch is only logged (console.error).
ProgressTimerFires(ok) ==
  /\ Mounted
  /\ isPlaying
  /\ ReportIsSent
  /\ Len(log) < MaxLog
  /\ log' = Append(log, ProgressReport)
  /\ reportFailed' = (reportFailed \/ ~ok)
  /\ UNCHANGED <<navVars, hasCreds, obsVars, plays, replaced, uiVars, progElapsed, inits, exits, nextUuid, epoch,
                 sinceReport>>

\* SpecTimed counts time. The interval created by the progress effect fires
\* once it has lived for PROGRESS_REPORT_INTERVAL; a re-run of the effect
\* replaces it by a new one (see AfterRender). `elapsed` is its age.
ProgressTimerDue(elapsed) == elapsed >= PROGRESS_REPORT_INTERVAL

\* STATE_POLL_INTERVAL ms pass and the state poll runs. When the progress
\* interval falls due at the same tick, its callback and the continuation of
\* the poll's await run in either order (timerFirst). The outcome of the
\* report's fetch is not followed here.
PollTick(res, timerFirst) ==
  /\ Mounted
  /\ isPlaying
  /\ LET elapsed == progElapsed + STATE_POLL_INTERVAL
         s == AfterPoll(res)
         changed == s.position # position \/ s.isPaused # isPaused
         fires == ProgressTimerDue(elapsed) /\ (timerFirst \/ ~changed)
         sent == fires /\ ReportIsSent
     IN /\ timerFirst => (ProgressTimerDue(elapsed) /\ changed)
        /\ sent => Len(log) < MaxLog
        /\ log' = IF sent
                    THEN Append(log, ProgressReport)
                    ELSE log
        /\ Commit(history, currentIndex, s, inits,
                  IF fires THEN 0 ELSE elapsed,
                  IF sent THEN 0
                  ELSE IF sinceReport + STATE_POLL_INTERVAL > ObserverCap
                    THEN ObserverCap ELSE sinceReport + STATE_POLL_INTERVAL)
  /\ staleFor' = IF res.ok THEN 0 ELSE Min(staleFor + STATE_POLL_INTERVAL, StaleCap)
  /\ UNCHANGED <<hasCreds, controlFailed, engineUp, dispatchVars, calc, engineMuted, plays, replaced,
                 reportFailed, exits, nextUuid>>

\* ------------------------------------------------------- player controls
\* A variant of changeVolume that stores the new volume before the engine
\* has answered and keeps it when the call fails
ChangeVolumeOptimistic(delta, result) ==
  /\ Mounted
  /\ LET newVol == Max(0, Min(100, volume + delta))
     IN /\ newVol \in Volumes
        /\ Commit(history, currentIndex, [CurUi EXCEPT !.volume = newVol],
                  inits, progElapsed, sinceReport)
  /\ controlFailed' = (controlFailed \/ UnwrapThrows(result) # None)
  /\ UNCHANGED <<hasCreds, staleFor, engineUp, dispatchVars, calc, engineMuted, plays, replaced,
                 reportFailed, exits, log, nextUuid>>

\* changeVolume(delta): ArrowUp / ArrowDown; the keydown listener is
\* installed in every view of the mounted Player. A failed setVolume() is
\* caught and logged (console.error('Volume change failed:', e))
ChangeVolume(delta, result) ==
  /\ Mounted
  /\ LET newVol == Max(0, Min(100, volume + delta))
     IN /\ newVol \in Volumes
        /\ Commit(history, currentIndex,
                  IF UnwrapThrows(result) = None
                    THEN [CurUi EXCEPT !.volume = newVol,
                                       !.isMuted = IF newVol > 0 THEN FALSE ELSE @]
                    ELSE CurUi,
                  inits, progElapsed, sinceReport)
  /\ controlFailed' = (controlFailed \/ UnwrapThrows(result) # None)
  /\ UNCHANGED <<hasCreds, staleFor, engineUp, dispatchVars, calc, engineMuted, plays, replaced,
                 reportFailed, exits, log, nextUuid>>

\* togglePlayPause(): space key, click. A failed togglePlayback() is caught
\* and logged (console.error('Toggle playback failed:', e))
TogglePlayPause(result) ==
  /\ Mounted
  /\ Commit(history, currentIndex,
            IF UnwrapThrows(result) = None
              THEN [CurUi EXCEPT !.isPaused = ~isPaused] ELSE CurUi,
            inits, progElapsed, sinceReport)
  /\ controlFailed' = (controlFailed \/ UnwrapThrows(result) # None)
  /\ UNCHANGED <<hasCreds, staleFor, engineUp, dispatchVars, calc, engineMuted, plays, replaced,
                 reportFailed, exits, log, nextUuid>>

\* playerService.setVolume(volume): invoke('set_volume', { volume }); the
\* value the engine is handed
SetVolumeArg(vol) == vol

\* the values setVolumeDirectly is applied to: the range input passes 0..100,
\* the function takes any number
RequestedVolumes ==
  {-VOLUME_STEP, 0, InitialVolume - VOLUME_STEP, InitialVolume, InitialVolume + VOLUME_STEP}

\* setVolumeDirectly(vol): the volume slider of the playing view. A failed
\* setVolume() is caught and logged
SetVolumeDirectly(vol, result) ==
  /\ Mounted
  /\ error = None
  /\ ~isLoading
  /\ Commit(history, currentIndex,
            IF UnwrapThrows(result) = None
              THEN [CurUi EXCEPT !.volume = vol,
                                 !.isMuted = IF vol > 0 THEN FALSE ELSE @]
              ELSE CurUi,
            inits, progElapsed, sinceReport)
  /\ calc' = [op |-> "setVolume", arg |-> vol, out |-> SetVolumeArg(vol),
              back |-> IF UnwrapThrows(result) = None THEN vol ELSE volume]
  /\ controlFailed' = (controlFailed \/ UnwrapThrows(result) # None)
  /\ UNCHANGED <<hasCreds, staleFor, engineUp, dispatchVars, engineMuted, plays,
                 replaced, reportFailed, exits, log, nextUuid>>

\* toggleMute(): the m key, the speaker button. The engine flips its mute flag
\* and the controller flips its own; a failed toggleMute() is caught and logged
ToggleMute(result) ==
  /\ Mounted
  /\ Commit(history, currentIndex,
            IF UnwrapThrows(result) = None
              THEN [CurUi EXCEPT !.isMuted = ~isMuted] ELSE CurUi,
            inits, progElapsed, sinceReport)
  /\ engineMuted' = IF UnwrapThrows(result) = None THEN ~engineMuted ELSE engineMuted
  /\ controlFailed' = (controlFailed \/ UnwrapThrows(result) # None)
  /\ UNCHANGED <<hasCreds, staleFor, engineUp, dispatchVars, calc, plays, replaced,
                 reportFailed, exits, log, nextUuid>>

\* seekRelative(delta): ArrowLeft / ArrowRight.
\* setPosition(p => Math.max(0, Math.min(duration, p + delta)))
SeekRelative(delta, result) ==
  /\ Mounted
  /\ Commit(history, currentIndex,
            IF UnwrapThrows(result) = None
              THEN [CurUi EXCEPT !.position = Max(0, Min(duration, position + delta))]
              ELSE CurUi,
            inits, progElapsed, sinceReport)
  /\ controlFailed' = (controlFailed \/ UnwrapThrows(result) # None)
  /\ UNCHANGED <<hasCreds, staleFor, engineUp, dispatchVars, calc, engineMuted, plays,
                 replaced, reportFailed, exits, log, nextUuid>>

\* the positions seekTo is applied to: the seek bar passes pct * duration with
\* pct in [0, 1], the function takes any number
SeekTargets == -1..(MaxPosition + 1)

\* seekTo(pos): releasing the mouse on the seek bar of the playing view.
\* await playerService.seek(pos); setPosition(pos)
SeekTo(pos, result) ==
  /\ Mounted
  /\ error = None
  /\ ~isLoading
  /\ Commit(history, currentIndex,
            IF UnwrapThrows(result) = None
              THEN [CurUi EXCEPT !.position = pos] ELSE CurUi,
            inits, progElapsed, sinceReport)
  /\ controlFailed' = (controlFailed \/ UnwrapThrows(result) # None)
  /\ UNCHANGED <<hasCreds, staleFor, engineUp, dispatchVars, calc, engineMuted, plays,
                 replaced, reportFailed, exits, log, nextUuid>>

\* -------------------------------------------------------------- handleExit
\* the pc of a handleExit() call once reportPlaybackStopped has run up to its
\* fetch: it awaits that fetch if the report was sent
ExitPcAfterReport(sent) == IF sent THEN "stopFetch" ELSE "stop"

\* A variant of handleExit that goes straight to the engine's stop()
HandleExitWithoutReport ==
  /\ Mounted
  /\ Len(exits) < MaxExits
  /\ exits' = Append(exits, [pc |-> "stop", idx |-> currentIndex])
  /\ UNCHANGED <<navVars, hasCreds, obsVars, plays, replaced, reportFailed, uiVars, progElapsed,
                 inits, log, nextUuid, epoch, sinceReport>>

\* Escape key or exit button: handleExit() runs up to its first await
HandleExit ==
  /\ Mounted
  /\ Len(exits) < MaxExits
  /\ ReportIsSent => Len(log) < MaxLog
  /\ log' = IF ReportIsSent
              THEN Append(log, StopReport)
              ELSE log
  /\ exits' = Append(exits, [pc |-> ExitPcAfterReport(ReportIsSent),
                             idx |-> currentIndex])
  /\ UNCHANGED <<navVars, hasCreds, obsVars, plays, replaced, reportFailed, uiVars, progElapsed, inits, nextUuid, epoch,
                 sinceReport>>

ExitAdvance(i, pc) ==
  /\ exits' = [exits EXCEPT ![i].pc = pc]
  /\ UNCHANGED <<navVars, hasCreds, obsVars, plays, replaced, uiVars, progElapsed, inits, log, nextUuid, epoch,
                 sinceReport>>

\* the fetch of reportPlaybackStopped resolves or rejects (caught and logged)
StopReportSettled(i, ok) ==
  /\ i \in DOMAIN exits
  /\ exits[i].pc = "stopFetch"
  /\ ExitAdvance(i, "stop")
  /\ reportFailed' = (reportFailed \/ ~ok)

\* try { await playerService.stop() } catch {}; playerService.destroy() is
\* invoked
ExitEngineStop(i, result) ==
  /\ i \in DOMAIN exits
  /\ exits[i].pc = "stop"
  /\ exits' = [exits EXCEPT ![i].pc = "destroy"]
  /\ engineUp' = FALSE
  /\ UNCHANGED <<navVars, hasCreds, staleFor, controlFailed, dispatchVars, calc, engineMuted, plays,
                 replaced, reportFailed, uiVars, progElapsed, inits, log, nextUuid,
                 epoch, sinceReport>>

\* try { await playerService.destroy() } catch {}; goBack() of the render in
\* which handleExit was called: if (currentIndex > 0) setCurrentIndex(p => p - 1)
ExitEngineDestroy(i, result) ==
  /\ i \in DOMAIN exits
  /\ exits[i].pc = "destroy"
  /\ exits' = RemoveAt(exits, i)
  /\ Commit(history, IF exits[i].idx > 0 THEN currentIndex - 1 ELSE currentIndex,
            CurUi, inits, progElapsed, sinceReport)
  /\ UNCHANGED <<hasCreds, obsVars, plays, replaced, reportFailed, log, nextUuid>>

\* ---------------------------------------------------------------- dispatch
\* uiStore.localPlayback: initially null; setLocalPlayback has no caller
localPlayback == None

\* ShortcutAction: one of seven strings, or { custom: string }. [custom |->
\* FALSE, name |-> n] is the string n, [custom |-> TRUE, name |-> n] the
\* object { custom: n }
ShortcutNames ==
  {"playPause", "nextTrack", "previousTrack", "stop", "volumeUp", "volumeDown", "mute"}
ShortcutActions ==
  [custom : {FALSE}, name : ShortcutNames]
    \cup [custom : {TRUE}, name : {"playPause", "volumeUp", "myAction"}]
TrayCommands == {"playPause", "next", "previous"}

\* the volumes get_volume answers with
DispatchVolumes == {0, 3, 50, 97, 100}

EngineCall(cmd, arg) == [cmd |-> cmd, arg |-> arg]

\* if (!localPlayback && event.action !== 'playPause') return
ShortcutIgnored(ev) == localPlayback = None /\ (ev.custom \/ ev.name # "playPause")

\* The engine commands the switch of handleShortcut invokes for
\* action = typeof event.action === 'string' ? event.action : event.action.custom
\* when get_volume answers vol, the first command r1 and the second r2
ShortcutCalls(ev, vol, r1, r2) ==
  CASE ev.name = "playPause" -> << EngineCall("toggle_playback", Undefined) >>
    [] ev.name = "stop" -> << EngineCall("stop_video", Undefined) >>
    [] ev.name = "volumeUp" ->
         IF UnwrapThrows(r1) # None
           THEN << EngineCall("get_volume", Undefined) >>
           ELSE << EngineCall("get_volume", Undefined),
                   EngineCall("set_volume", Min(100, vol + VOLUME_STEP)) >>
    [] ev.name = "volumeDown" ->
         IF UnwrapThrows(r1) # None
           THEN << EngineCall("get_volume", Undefined) >>
           ELSE << EngineCall("get_volume", Undefined),
                   EngineCall("set_volume", Max(0, vol - VOLUME_STEP)) >>
    [] ev.name = "mute" -> << EngineCall("toggle_mute", Undefined) >>
    [] OTHER -> << >>

\* the message of the error thrown inside the try block, None if none
ShortcutThrown(ev, r1, r2) ==
  CASE ev.name \in {"playPause", "stop", "mute"} -> UnwrapThrows(r1)
    [] ev.name \in {"volumeUp", "volumeDown"} ->
         IF UnwrapThrows(r1) # None THEN UnwrapThrows(r1) ELSE UnwrapThrows(r2)
    [] OTHER -> None

\* A variant of the catch block that throws the error on
DispatchCatchRethrows(msg) == msg # None

\* catch (error) { console.error(...) }: does the error leave the handler
DispatchCatch(msg) == FALSE

\* A variant of the guard of handleShortcut that lets every command through
ShortcutRuns(ev, vol, r1, r2) ==
  [calls |-> ShortcutCalls(ev, vol, r1, r2),
   caught |-> ShortcutThrown(ev, r1, r2),
   threw |-> DispatchCatch(ShortcutThrown(ev, r1, r2))]

\* One call of handleShortcut(event): the engine commands it invokes, the
\* error it catches and whether an error leaves it
HandleShortcut(ev, vol, r1, r2) ==
  IF ShortcutIgnored(ev)
    THEN [calls |-> << >>, caught |-> None, threw |-> FALSE]
    ELSE [calls |-> ShortcutCalls(ev, vol, r1, r2),
          caught |-> ShortcutThrown(ev, r1, r2),
          threw |-> DispatchCatch(ShortcutThrown(ev, r1, r2))]

\* One call of handleTrayCommand(cmd)
HandleTrayCommand(cmd, r1) ==
  IF cmd = "playPause"
    THEN [calls |-> << EngineCall("toggle_playback", Undefined) >>,
          caught |-> UnwrapThrows(r1),
          threw |-> DispatchCatch(UnwrapThrows(r1))]
    ELSE [calls |-> << >>, caught |-> None, threw |-> FALSE]

Dispatched(handler, ev, d) ==
  /\ command' = [handler |-> handler, custom |-> ev.custom, name |-> ev.name]
  /\ engineCalls' = d.calls
  /\ caught' = d.caught
  /\ threw' = (threw \/ d.threw)
  /\ UNCHANGED <<navVars, hasCreds, staleFor, controlFailed, engineUp, calc, engineMuted, plays,
                 replaced, reportFailed, uiVars, progElapsed, inits, exits, log, nextUuid,
                 epoch, sinceReport>>

\* a global shortcut event arrives
Shortcut(ev, vol, r1, r2) ==
  Dispatched("handleShortcut", ev, HandleShortcut(ev, vol, r1, r2))

\* a tray command arrives
TrayCommand(cmd, r1) ==
  Dispatched("handleTrayCommand", [custom |-> FALSE, name |-> cmd],
             HandleTrayCommand(cmd, r1))

\* ------------------------------------------------------------- conversions
\* the times in seconds that are converted: every multiple of a unit up to
\* MaxUnits units
SecondsInputs == 0..MaxUnits

\* secondsToTicks(sec) is computed, for a progress or stop report, and the
\* result is converted back by ticksToSeconds
ConvertSeconds(sec) ==
  /\ calc' = [op |-> "secondsToTicks", arg |-> sec, out |-> secondsToTicks(sec),
              back |-> ticksToSeconds(secondsToTicks(sec))]
  /\ UNCHANGED <<navVars, hasCreds, staleFor, controlFailed, engineUp, dispatchVars,
                 engineMuted, plays, replaced, reportFailed, uiVars, progElapsed, inits, exits, log,
                 nextUuid, epoch, sinceReport>>

\* ------------------------------------------------------------ specification
Next ==
  \/ \E item \in DetailItems : NavigateToItem(item)
  \/ \E item \in ClickedItems : NavigateToPlayer(item)
  \/ GoBack
  \/ \E i \in 1..MaxInits, r \in EngineResults : InitEngineReady(i, r)
  \/ \E i \in 1..MaxInits, ok \in BOOLEAN : InitItemFetched(i, ok)
  \/ \E i \in 1..MaxInits, r \in EngineResults : InitLoaded(i, r)
  \/ \E i \in 1..MaxInits, r \in EngineResults : InitDurationRead(i, r)
  \/ \E i \in 1..MaxInits, ok \in BOOLEAN : StartReportSettled(i, ok)
  \/ \E res \in PollResults : Poll(res)
  \/ \E ok \in BOOLEAN : ProgressTimerFires(ok)
  \/ \E d \in {VOLUME_STEP, -VOLUME_STEP}, r \in EngineResults : ChangeVolume(d, r)
  \/ \E r \in EngineResults : TogglePlayPause(r)
  \/ HandleExit
  \/ \E i \in 1..MaxExits, ok \in BOOLEAN : StopReportSettled(i, ok)
  \/ \E i \in 1..MaxExits, r \in EngineResults : ExitEngineStop(i, r)
  \/ \E i \in 1..MaxExits, r \in EngineResults : ExitEngineDestroy(i, r)

Spec == Init /\ [][Next]_vars

\* The same with the navigation that can happen while the player page is
\* shown (the navigation bar, a handlePlay still awaiting its episode); the
\* page is left by the navigation bar or the error view's button, and the
\* volume and pause keys are not pressed
NextRequest ==
  \/ \E item \in DetailItems : NavigateToItem(item)
  \/ \E item \in ClickedItems : NavigateToPlayer(item)
  \/ HandlePlay
  \/ \E i \in 1..MaxPlays, e \in Items \cup {None} : FirstEpisodeFetched(i, e)
  \/ \E page \in {"home", "player"} : NavBar(page)
  \/ GoBack
  \/ \E i \in 1..MaxInits, r \in EngineResults : InitEngineReady(i, r)
  \/ \E i \in 1..MaxInits, ok \in BOOLEAN : InitItemFetched(i, ok)
  \/ \E i \in 1..MaxInits, r \in EngineResults : InitLoaded(i, r)
  \/ \E i \in 1..MaxInits, r \in EngineResults : InitDurationRead(i, r)
  \/ \E i \in 1..MaxInits, ok \in BOOLEAN : StartReportSettled(i, ok)
  \/ \E res \in PollResults : Poll(res)
  \/ \E ok \in BOOLEAN : ProgressTimerFires(ok)

SpecRequest == Init /\ [][NextRequest]_vars

\* One play-item request, never exited, with time counted: the poll ticks every
\* STATE_POLL_INTERVAL ms and the progress interval is due
\* PROGRESS_REPORT_INTERVAL ms after the progress effect created it
NextTimed ==
  \/ \E item \in DetailItems : NavigateToItem(item)
  \/ \E item \in ClickedItems : NavigateToPlayer(item)
  \/ \E i \in 1..MaxInits, r \in EngineResults : InitEngineReady(i, r)
  \/ \E i \in 1..MaxInits, ok \in BOOLEAN : InitItemFetched(i, ok)
  \/ \E i \in 1..MaxInits, r \in EngineResults : InitLoaded(i, r)
  \/ \E i \in 1..MaxInits, r \in EngineResults : InitDurationRead(i, r)
  \/ \E i \in 1..MaxInits, ok \in BOOLEAN : StartReportSettled(i, ok)
  \/ \E res \in PollResults, timerFirst \in BOOLEAN : PollTick(res, timerFirst)

SpecTimed == Init /\ [][NextTimed]_vars

\* One play-item request with global shortcuts and tray commands arriving at
\* any time, before playback, while loading and while Playing
NextDispatch ==
  \/ \E item \in DetailItems : NavigateToItem(item)
  \/ \E item \in ClickedItems : NavigateToPlayer(item)
  \/ \E i \in 1..MaxInits, r \in EngineResults : InitEngineReady(i, r)
  \/ \E i \in 1..MaxInits, ok \in BOOLEAN : InitItemFetched(i, ok)
  \/ \E i \in 1..MaxInits, r \in EngineResults : InitLoaded(i, r)
  \/ \E i \in 1..MaxInits, r \in EngineResults : InitDurationRead(i, r)
  \/ \E i \in 1..MaxInits, ok \in BOOLEAN : StartReportSettled(i, ok)
  \/ \E res \in PollResults : Poll(res)
  \/ \E ok \in BOOLEAN : ProgressTimerFires(ok)
  \/ GoBack
  \/ \E ev \in ShortcutActions, vol \in DispatchVolumes, r1, r2 \in EngineResults :
       Shortcut(ev, vol, r1, r2)
  \/ \E cmd \in TrayCommands, r1 \in EngineResults : TrayCommand(cmd, r1)

SpecDispatch == Init /\ [][NextDispatch]_vars

\* One play-item request for an episode or for a season, left by the error
\* view's button
NextCatalog ==
  \/ \E item \in DetailItems : NavigateToItem(item)
  \/ \E item \in ClickedItems \cup SeasonItems : NavigateToPlayer(item)
  \/ GoBack
  \/ \E i \in 1..MaxInits, r \in EngineResults : InitEngineReady(i, r)
  \/ \E i \in 1..MaxInits, ok \in BOOLEAN : InitItemFetched(i, ok)
  \/ \E i \in 1..MaxInits, r \in EngineResults : InitLoaded(i, r)
  \/ \E i \in 1..MaxInits, r \in EngineResults : InitDurationRead(i, r)
  \/ \E i \in 1..MaxInits, ok \in BOOLEAN : StartReportSettled(i, ok)
  \/ \E res \in PollResults : Poll(res)
  \/ \E ok \in BOOLEAN : ProgressTimerFires(ok)

SpecCatalog == Init /\ [][NextCatalog]_vars

\* One play-item request, never exited, with the volume and mute controls of
\* the Player used at any time
NextVolume ==
  \/ \E item \in DetailItems : NavigateToItem(item)
  \/ \E item \in ClickedItems : NavigateToPlayer(item)
  \/ \E i \in 1..MaxInits, r \in EngineResults : InitEngineReady(i, r)
  \/ \E i \in 1..MaxInits, ok \in BOOLEAN : InitItemFetched(i, ok)
  \/ \E i \in 1..MaxInits, r \in EngineResults : InitLoaded(i, r)
  \/ \E i \in 1..MaxInits, r \in EngineResults : InitDurationRead(i, r)
  \/ \E i \in 1..MaxInits, ok \in BOOLEAN : StartReportSettled(i, ok)
  \/ \E d \in {VOLUME_STEP, -VOLUME_STEP}, r \in EngineResults : ChangeVolume(d, r)
  \/ \E vol \in RequestedVolumes, r \in EngineResults : SetVolumeDirectly(vol, r)
  \/ \E r \in EngineResults : ToggleMute(r)

SpecVolume == Init /\ [][NextVolume]_vars

\* One play-item request, never exited, with the poll reading full engine
\* snapshots and the seek controls of the Player used at any time
NextSeek ==
  \/ \E item \in DetailItems : NavigateToItem(item)
  \/ \E item \in ClickedItems : NavigateToPlayer(item)
  \/ \E i \in 1..MaxInits, r \in EngineResults : InitEngineReady(i, r)
  \/ \E i \in 1..MaxInits, ok \in BOOLEAN : InitItemFetched(i, ok)
  \/ \E i \in 1..MaxInits, r \in EngineResults : InitLoaded(i, r)
  \/ \E i \in 1..MaxInits, r \in EngineResults : InitDurationRead(i, r)
  \/ \E i \in 1..MaxInits, ok \in BOOLEAN : StartReportSettled(i, ok)
  \/ \E res \in PollSnapshots : Poll(res)
  \/ \E ok \in BOOLEAN : ProgressTimerFires(ok)
  \/ \E d \in {SEEK_STEP, -SEEK_STEP}, r \in EngineResults : SeekRelative(d, r)
  \/ \E pos \in SeekTargets, r \in EngineResults : SeekTo(pos, r)

SpecSeek == Init /\ [][NextSeek]_vars

\* The conversions between seconds and ticks applied to every input
NextConvert ==
  \/ \E sec \in SecondsInputs : ConvertSeconds(sec)

SpecConvert == Init /\ [][NextConvert]_vars

\* ================================================================ properties
\* A session is the lifetime of one play-item request: the reports of the log
\* carry the number (epoch) of the request during which they were sent.
Reports(kind, ep) == {k \in DOMAIN log : log[k].kind = kind /\ log[k].epoch = ep}
HasReport(kind, sid) ==
  \E k \in DOMAIN log : log[k].kind = kind /\ log[k].PlaySessionId = sid

\* C1: within one playback session at most one 'playback started' report is
\* sent, whatever user operations and poll ticks happen in between.
C1_AtMostOneStart ==
  \A ep \in 1..MaxEpoch : Cardinality(Reports("start", ep)) <= 1

\* C2: within one playback session no 'playback progress' report is sent after
\* the 'playback stopped' report.
C2_NoProgressAfterStop ==
  \A j, k \in DOMAIN log :
    (j < k /\ log[j].kind = "stop" /\ log[j].epoch = log[k].epoch)
      => log[k].kind # "progress"

\* C3: within one playback session at most one 'playback stopped' report is
\* sent, even when exit is triggered again before the first exit has finished.
C3_AtMostOneStop ==
  \A ep \in 1..MaxEpoch : Cardinality(Reports("stop", ep)) <= 1

\* C4: no progress report and no stop report is sent before the start report
\* of the same session has been sent.
C4_StartFirst ==
  \A k \in DOMAIN log :
    log[k].kind \in {"progress", "stop"}
      => \E j \in 1..(k - 1) : log[j].kind = "start" /\ log[j].epoch = log[k].epoch

\* C5: every progress and stop report of a session carries the PlaySessionId
\* of that session's start report, and no two start reports carry the same id.
C5_StableDistinctId ==
  /\ \A j, k \in DOMAIN log :
       (log[j].kind = "start" /\ log[k].kind \in {"progress", "stop"}
          /\ log[j].epoch = log[k].epoch)
         => log[k].PlaySessionId = log[j].PlaySessionId
  /\ \A j, k \in DOMAIN log :
       (j # k /\ log[j].kind = "start" /\ log[k].kind = "start")
         => log[j].PlaySessionId # log[k].PlaySessionId

\* C6: when a play-item request for another item arrives while a session is
\* Playing, a stop report carrying the old session's PlaySessionId is sent
\* (and before any start report of the new session): as long as it has not
\* been sent, no newer start report has been sent and the program can still
\* take a step.
C6_StopForReplacedSession ==
  (replaced # NoSession /\ ~HasReport("stop", replaced))
    => /\ \A k \in DOMAIN log : log[k].kind = "start" => log[k].PlaySessionId <= replaced
       /\ ENABLED NextRequest

\* C7: a rejected report changes nothing of the local state: a play-item
\* request whose engine init and load succeeded is Playing (isPlaying, not
\* paused, no error) before the fetch of its start report settles; when that
\* fetch rejects it stays Playing with no error set; and every successful
\* poll tick after a rejected report sets the local position and pause flag
\* to the values read.
C7_ReportFailureIsLocalNoOp ==
  [][ /\ \A i \in DOMAIN inits, r \in EngineResults :
           (InitDurationRead(i, r) /\ UnwrapThrows(r) = None
              /\ inits[i].alive /\ ~inits[i].cancelled)
             => (isPlaying' /\ ~isPaused' /\ ~isLoading' /\ error' = None)
      /\ \A i \in DOMAIN inits :
           (StartReportSettled(i, FALSE) /\ inits[i].alive /\ ~inits[i].cancelled)
             => (isPlaying /\ error = None /\ ~isLoading /\ UNCHANGED uiVars)
      /\ ProgressTimerFires(FALSE) => UNCHANGED uiVars
      /\ \A res \in PollResults :
           (Poll(res) /\ res.ok /\ reportFailed)
             => (position' = res.position /\ isPaused' = res.is_paused
                 /\ isPlaying' /\ error' = error)
    ]_vars

\* C7 witness: the only report sent was rejected, the session is Playing
\* without error and a poll has set the position and the pause flag
C7_Witness ==
  /\ reportFailed /\ Mounted /\ isPlaying /\ error = None /\ ~isLoading
  /\ inits = << >> /\ exits = << >> /\ Len(log) = 1
  /\ position = MaxPosition /\ isPaused

\* C8: a report never blocks the transition it accompanies: every running
\* exit can go on to the engine's stop() or destroy() without the network
\* call of the stop report having completed.
C8_ExitNeverWaitsForReport ==
  \A i \in DOMAIN exits :
    ENABLED (\E r \in EngineResults : ExitEngineStop(i, r) \/ ExitEngineDestroy(i, r))

\* C9: while a session that sent its start report is active, a progress report
\* is sent every PROGRESS_REPORT_INTERVAL ms: the time since the last start or
\* progress report never exceeds the interval.
C9_ProgressEveryInterval ==
  (Mounted /\ isPlaying /\ error = None /\ ReportIsSent)
    => sinceReport <= PROGRESS_REPORT_INTERVAL

\* C10: a play attempt whose engine load rejects with message m ends in the
\* Error state carrying m, sends no start report, and leaves neither the state
\* poll nor the progress interval running (both run iff isPlaying).
C10_LoadRejected ==
  [][ \A i \in DOMAIN inits, r \in EngineResults :
        (InitLoaded(i, r) /\ UnwrapThrows(r) # None
           /\ inits[i].alive /\ ~inits[i].cancelled)
          => (error' = UnwrapThrows(r) /\ log' = log /\ ~isPlaying')
    ]_vars


\* C11: a play-item request that carries a start position of T ticks calls
\* the engine load with start position T / 10000000 seconds and sends a start
\* report with PositionTicks = T and IsPaused = false.
C11_StartPositionHonoured ==
  /\ \A i \in DOMAIN inits :
       inits[i].pc = "load"
         => inits[i].start_position = ticksToSeconds(PlaybackPositionTicks(inits[i].item))
  /\ \A k \in DOMAIN log :
       log[k].kind = "start"
         => (log[k].PositionTicks = PlaybackPositionTicks(log[k].ItemId)
             /\ log[k].IsPaused = FALSE)

\* C12: while Playing, a successful togglePlayPause makes the local pause
\* flag true; a successful poll tick that reads is_paused = true from the
\* engine leaves isPaused = true; and every progress report carries the
\* IsPaused of the local state at the time it is sent, so the next one after
\* that poll carries IsPaused = true.
C12_PauseReachesProgressReport ==
  [][ /\ \A r \in EngineResults :
           (TogglePlayPause(r) /\ UnwrapThrows(r) = None /\ isPlaying /\ ~isPaused)
             => (isPaused' /\ isPlaying')
      /\ \A res \in PollResults :
           (Poll(res) /\ res.ok /\ res.is_paused) => (isPaused' /\ isPlaying')
      /\ \A ok \in BOOLEAN :
           ProgressTimerFires(ok)
             => /\ log'[Len(log')].kind = "progress"
                /\ log'[Len(log')].IsPaused = isPaused
                /\ isPaused' = isPaused
    ]_vars

\* C12 witness: a session that started unpaused is paused, a poll has read the
\* engine since, and its latest progress report carries IsPaused = true
C12_Witness ==
  /\ Mounted /\ isPlaying /\ isPaused /\ error = None /\ position = MaxPosition
  /\ Len(log) >= 2
  /\ log[1].kind = "start" /\ ~log[1].IsPaused
  /\ log[Len(log)].kind = "progress" /\ log[Len(log)].IsPaused
  /\ log[Len(log)].epoch = log[1].epoch

\* C13: every handleExit call of a Playing or Paused session goes through its
\* steps in this order: the stop report is sent (the call then waits for its
\* fetch), then the engine's stop() is invoked, then destroy(), then the
\* player page is left; no call reaches stop() or destroy() any other way.
C13_ExitOrder ==
  [][ /\ Len(exits') > Len(exits)
          => /\ exits' = Append(exits, exits'[Len(exits')])
             /\ (SessionPlaying /\ hasCreds)
                  => /\ log' = Append(log, StopReport)
                     /\ log'[Len(log')].kind = "stop"
                     /\ log'[Len(log')].PlaySessionId = playSessionIdRef
                     /\ exits'[Len(exits')].pc = "stopFetch"
      /\ Len(exits') = Len(exits)
          => \A i \in DOMAIN exits :
               \/ exits'[i] = exits[i]
               \/ exits[i].pc = "stopFetch" /\ exits'[i].pc = "stop"
               \/ exits[i].pc = "stop" /\ exits'[i].pc = "destroy"
      /\ Len(exits') < Len(exits)
          => /\ \E i \in DOMAIN exits :
                  exits[i].pc = "destroy" /\ exits' = RemoveAt(exits, i)
             /\ ~Mounted'
             /\ log' = log
    ]_vars

\* C13 witness: a session that sent its start report was exited, the exit has
\* run to its end and the page is left
C13_Witness ==
  /\ ~Mounted /\ exits = << >> /\ Len(log) = 2
  /\ log[1].kind = "start" /\ log[2].kind = "stop"
  /\ log[2].PlaySessionId = log[1].PlaySessionId

\* C14: a poll tick whose getState() fails changes nothing: position, pause
\* flag, volume, error and isPlaying keep their values, no init call is
\* started or ended, and the player stays mounted and Playing, so the poll
\* interval (which exists iff isPlaying) keeps ticking.
C14_FailedPollChangesNothing ==
  [][ \A timerFirst \in BOOLEAN :
        PollTick(PollFailed, timerFirst)
          => /\ UNCHANGED uiVars
             /\ UNCHANGED <<navVars, inits, exits>>
             /\ Mounted' /\ isPlaying'
    ]_vars

\* C14 witness: the latest poll tick failed after an earlier one had read the
\* position; the session is still Playing, with that position and no error
C14_Witness ==
  /\ staleFor = STATE_POLL_INTERVAL
  /\ Mounted /\ isPlaying /\ error = None /\ ~isLoading
  /\ position = MaxPosition /\ isPaused

NoSessionActive == ~(Mounted /\ isPlaying)

\* C16: when no local playback session is active, a dispatched command other
\* than playPause (nextTrack, previousTrack, stop, volumeUp, volumeDown, mute,
\* a custom action) makes no engine call at all.
C16_NoEngineCallWithoutSession ==
  [][ (/\ dispatchVars' # dispatchVars
       /\ command'.handler = "handleShortcut"
       /\ command'.custom \/ command'.name # "playPause"
       /\ NoSessionActive)
        => (engineCalls' = << >> /\ caught' = None /\ ~threw')
    ]_vars

\* C16 witness: volumeDown was dispatched on the home page, where nothing has
\* been played yet, and no engine command was invoked
C16_Witness ==
  /\ command = [handler |-> "handleShortcut", custom |-> FALSE, name |-> "volumeDown"]
  /\ NoSessionActive /\ PageAt(history, currentIndex) = "home" /\ log = << >>
  /\ engineCalls = << >> /\ ~threw

\* C17: dispatch never propagates an error to its caller: whatever command
\* arrives and whatever the engine answers, neither handleShortcut nor
\* handleTrayCommand throws or rejects.
C17_DispatchNeverThrows == ~threw

\* C17 witness: playPause was dispatched by the tray before any player page
\* was opened, the engine command failed without a message, and the handler
\* caught the error
C17_Witness ==
  /\ command = [handler |-> "handleTrayCommand", custom |-> FALSE, name |-> "playPause"]
  /\ PageAt(history, currentIndex) = "home" /\ inits = << >> /\ log = << >>
  /\ engineCalls = << EngineCall("toggle_playback", Undefined) >>
  /\ caught = "Unknown error" /\ ~threw

\* C18: while the Player has an active session (Playing or Paused), a
\* dispatched volumeUp sets the engine volume to min(100, v + 5) and a
\* dispatched volumeDown to max(0, v - 5), v being the volume the engine
\* answered, unless an engine command fails.
C18_DispatchedVolumeStep ==
  [][ (/\ dispatchVars' # dispatchVars
       /\ command'.handler = "handleShortcut" /\ ~command'.custom
       /\ command'.name \in {"volumeUp", "volumeDown"}
       /\ Mounted /\ isPlaying)
        => \/ caught' # None
           \/ \E vol \in DispatchVolumes :
                engineCalls' =
                  << EngineCall("get_volume", Undefined),
                     EngineCall("set_volume",
                                IF command'.name = "volumeUp"
                                  THEN Min(100, vol + VOLUME_STEP)
                                  ELSE Max(0, vol - VOLUME_STEP)) >>
    ]_vars

\* C19: once the Player shows an error, the error stays until the player page
\* is left: no step clears it and no step starts a new init() call for the
\* item while the page stays mounted.
C19_NoRetryInPlace ==
  [][ (Mounted /\ error # None /\ Mounted')
        => (error' # None /\ Len(inits') <= Len(inits))
    ]_vars

\* C20: whenever the player page has been left after a play-item request was
\* shown, and no init or exit call of it is still running, the engine
\* instance has been destroyed: destroy() was invoked after the last
\* successful init().
C20_EngineDestroyedAtIdle ==
  (epoch >= 1 /\ ~Mounted /\ ~Crashed /\ inits = << >> /\ exits = << >>)
    => ~engineUp

\* C21: every session that sent a start report sends a stop report with the
\* same PlaySessionId once the player page is left, by the exit operation or
\* by navigation away: when the page has been left and no init or exit call
\* is still running, every start report of the log has its stop report.
C21_StopReportOnceLeft ==
  (~Mounted /\ ~Crashed /\ inits = << >> /\ exits = << >>)
    => \A k \in DOMAIN log :
         log[k].kind = "start" => HasReport("stop", log[k].PlaySessionId)

\* C22: at most one engine instance exists at a time: the engine's init() (and
\* with it the load that follows) is never invoked while an instance created
\* by an earlier init() has not been destroyed, so no init() call is in flight
\* while the engine is up.
C22_OneEngineInstance ==
  \A i \in DOMAIN inits : inits[i].pc = "init" => ~engineUp

\* round(seconds * 10000000), halves rounded up, for a time in units
RoundToTicks(sec) == (2 * sec + UnitsPerTick) \div (2 * UnitsPerTick)

\* C23: for all seconds >= 0, ticksToSeconds(secondsToTicks(seconds)) differs
\* from seconds by at most one tick, and secondsToTicks(seconds) is
\* round(seconds * 10000000).
C23_TickRoundTrip ==
  calc.op = "secondsToTicks"
    => /\ calc.arg - calc.back <= UnitsPerTick
       /\ calc.back - calc.arg <= UnitsPerTick
       /\ calc.out = RoundToTicks(calc.arg)

\* the volume a request for v is to produce
ClampedVolume(v) == Max(0, Min(100, v))

C25_PositionInRange ==
  (Mounted /\ isPlaying) => (0 <= position /\ position <= duration)

\* C26: after every successful poll tick the UI-facing position, duration,
\* pause flag and volume equal the values of the engine snapshot the tick read.
C26_PollMirrorsSnapshot ==
  [][\A res \in PollSnapshots :
       (res.ok /\ Poll(res))
         => /\ position' = res.position
            /\ duration' = res.duration
            /\ isPaused' = res.is_paused
            /\ volume' = res.volume]_vars

\* catalog resolution yields no playable media source for the item
NoPlayableSource(item) == ItemType(item) \in {"Series", "Season"}

\* C27: if catalog resolution yields no playable media source (the item is a
\* Series or a Season), the engine load is never invoked for that request, no
\* start report is sent, no periodic loop starts, and the controller ends in
\* the Error state with a message.
C27_NoLoadWithoutSource ==
  /\ \A i \in DOMAIN inits :
       NoPlayableSource(inits[i].item)
         => inits[i].pc \notin {"load", "duration", "startFetch"}
  /\ \A k \in DOMAIN log :
       log[k].kind = "start" => ~NoPlayableSource(log[k].ItemId)
  /\ (Mounted /\ NoPlayableSource(effectiveItemId))
       => /\ ~isPlaying
          /\ inits = << >> => error # None

\* C28: after any sequence of successful changeVolume, setVolumeDirectly and
\* toggleMute operations, nothing else touching the engine, the controller's
\* isMuted flag equals the engine's mute flag.
C28_MuteFlagsAgree ==
  (Mounted /\ ~controlFailed) => isMuted = engineMuted

\* C29: a play attempt cancelled (the player left, or the attempt superseded)
\* while it awaited engine init, the catalog lookup or the engine load neither
\* calls the engine load afterwards nor sends a start report.
C29_CancelledAttemptIsSilent ==
  \A i \in DOMAIN inits :
    /\ inits[i].cancelledAt \in {"init", "getItem"}
         => inits[i].pc \notin {"load", "duration", "startFetch"}
    /\ inits[i].cancelledAt \in {"init", "getItem", "load"}
         => inits[i].pc # "startFetch"

\* C30: after any sequence of navigate, navigateToItem, navigateToPlayer and
\* goBack calls, two calls made from the same render included, currentIndex
\* lies in 0 .. history.length - 1, so the current page is always defined.
C30_CurrentPageDefined == InRange(history, currentIndex)

====
